---------------------------- MODULE Spec2Model ----------------------------
(***************************************************************************)
(* Monoexponential decay fitting of tedana/model/monoexponential.py:       *)
(* fit_decay (pooled over time) and fit_decay_ts (one fit per timepoint).  *)
(*                                                                         *)
(* Numbers.  A float is a record [k, n, d]:                                *)
(*   k = "fin"  the rational n/d (d > 0, lowest terms)                     *)
(*   k = "exp"  the float e^(n/d), the result of np.exp on a finite value  *)
(*   k = "inf"  an infinity (of either sign: np.isinf accepts both)        *)
(*   k = "nan"  not-a-number                                               *)
(* The regression is computed exactly (normal equations over the           *)
(* integers); floating-point rounding of LAPACK's solver is not modelled.  *)
(*                                                                         *)
(* Signals.  A signal is a record [sgn, lg]: the value sgn*(e^lg - 1) for  *)
(* sgn in {-1, 1}, and NaN for sgn = 0, so that ln(|signal| + 1) = lg is   *)
(* an integer and the log transform is computed, not assumed.              *)
(*                                                                         *)
(* Samples.  The spatial axes are flattened in C order to 1..n_samp (the   *)
(* order of numpy's boolean indexing); np.squeeze is the identity on the   *)
(* arrays modelled (no axis of extent one).                                *)
(***************************************************************************)
EXTENDS Integers, Sequences, FiniteSets, TLC

\* ------------------------------------------------------------------ bounds
NSamp == 2
NEchos == 3
NVols == 2

\* --------------------------------------------------------- program constants
\* t2s[np.isinf(t2s)] = 500.
T2sInfFill == 500
\* np.exp of a float64 overflows to inf from 710 on (exp(709.78) is the largest finite)
ExpOverflowArg == 710
\* np.exp of a float64 underflows to 0.0 below -745
ExpUnderflowArg == 745

\* ------------------------------------------------------------------ floats
Abs(x) == IF x < 0 THEN -x ELSE x

RECURSIVE GCD(_, _)
GCD(a, b) == IF b = 0 THEN a ELSE GCD(b, a % b)

Fin(num, den) ==
    LET g == GCD(Abs(num), Abs(den))
        s == IF den < 0 THEN -1 ELSE 1
    IN  [k |-> "fin", n |-> (s * num) \div g, d |-> Abs(den) \div g]

Zero == [k |-> "fin", n |-> 0, d |-> 1]
NaN == [k |-> "nan", n |-> 0, d |-> 1]
Inf == [k |-> "inf", n |-> 0, d |-> 1]

\* np.isinf, np.isnan
IsInf(v) == v.k = "inf"
IsNan(v) == v.k = "nan"

\* 1. / beta[1, :]  (float division: 1/0 is an infinity, 1/nan is nan)
Recip(v) ==
    IF v.k = "nan" THEN NaN
    ELSE IF v.n = 0 THEN Inf
    ELSE Fin(v.d, v.n)

\* np.exp(beta[0, :])
Exp(v) ==
    IF v.k = "nan" THEN NaN
    ELSE IF v.n >= ExpOverflowArg * v.d THEN Inf
    ELSE IF v.n < -(ExpUnderflowArg * v.d) THEN Zero
    ELSE [k |-> "exp", n |-> v.n, d |-> v.d]

\* np.log(np.abs(signal) + 1)
LogAbs1(sig) == IF sig.sgn = 0 THEN NaN ELSE Fin(sig.lg, 1)

\* ------------------------------------------------------------ sequences
\* the sequence q itself, as an evaluated tuple ([i \in 1..n |-> e] is otherwise
\* re-evaluated at every application); Array(q) = q
Array(q) == q \o <<>>

RECURSIVE SumSeq(_)
SumSeq(q) == IF q = <<>> THEN 0 ELSE Head(q) + SumSeq(Tail(q))

RECURSIVE Concat(_)
Concat(qq) == IF qq = <<>> THEN <<>> ELSE Head(qq) \o Concat(Tail(qq))

Count(m) == Cardinality({i \in DOMAIN m : m[i]})

\* a[m] for a boolean index m of a's length: the entries where m holds, in order
BoolIndex(a, m) ==
    LET RECURSIVE Pick(_)
        Pick(i) == IF i > Len(a) THEN <<>>
                   ELSE (IF m[i] THEN <<a[i]>> ELSE <<>>) \o Pick(i + 1)
    IN  Pick(1)

\* utils.unmask(vals, m): zeros of m's shape; out[m] = vals.  numpy's boolean
\* assignment takes as many values as m has true entries, or broadcasts one.
UnmaskFails(vals, m) == Len(vals) # Count(m) /\ Len(vals) # 1

Unmask(vals, m) ==
    Array([i \in DOMAIN m |->
        IF ~m[i] THEN Zero
        ELSE IF Len(vals) = 1 THEN vals[1]
        ELSE vals[Cardinality({j \in 1..i : m[j]})]])

\* ------------------------------------------------------- the regression
\* np.linalg.lstsq(X, y)[0] for one column y of B: the least-squares solution of
\* the two-column system, the minimum-norm one when X has rank one.
LstSq(X, y) ==
    IF \E p \in DOMAIN y : IsNan(y[p]) THEN <<NaN, NaN>>
    ELSE
    LET P == DOMAIN X
        S11 == SumSeq([p \in P |-> X[p][1] * X[p][1]])
        S12 == SumSeq([p \in P |-> X[p][1] * X[p][2]])
        S22 == SumSeq([p \in P |-> X[p][2] * X[p][2]])
        r1 == SumSeq([p \in P |-> X[p][1] * y[p].n])
        r2 == SumSeq([p \in P |-> X[p][2] * y[p].n])
        det == S11 * S22 - S12 * S12
    IN  IF det # 0
        THEN <<Fin(S22 * r1 - S12 * r2, det), Fin(S11 * r2 - S12 * r1, det)>>
        ELSE IF S11 + S22 # 0
        THEN <<Fin(r1, S11 + S22), Fin(r2, S11 + S22)>>
        ELSE <<Zero, Zero>>

\* one column of B (rows x samples)
Column(B, m) == Array([p \in DOMAIN B |-> B[p][m]])

\* the T2* clamp left out
ClampT2sNone(v) == v

\* t2s[np.isinf(t2s)] = 500.
ClampT2s(v) == IF IsInf(v) THEN Fin(T2sInfFill, 1) ELSE v

\* an S0 clamp that zeroes every non-finite value, infinities included
ClampS0NonFinite(v) == IF IsNan(v) \/ IsInf(v) THEN Zero ELSE v

\* s0[np.isnan(s0)] = 0.
ClampS0(v) == IF IsNan(v) THEN Zero ELSE v

\* beta = np.linalg.lstsq(X, B)[0]: one (intercept, rate) pair per column of B
Beta(X, B, nmask) == Array([m \in 1..nmask |-> LstSq(X, Column(B, m))])

\* t2s = 1. / beta[1, :].T;  t2s[np.isinf(t2s)] = 500.
T2sOf(b) == Array([m \in DOMAIN b |-> ClampT2s(Recip(b[m][2]))])

\* s0 = np.exp(beta[0, :]).T;  s0[np.isnan(s0)] = 0.
S0Of(b) == Array([m \in DOMAIN b |-> ClampS0(Exp(b[m][1]))])

\* ------------------------------------------------- design and response
\* tes[:echo]
Prefix(q, k) == SubSeq(q, 1, IF k < Len(q) THEN k ELSE Len(q))

\* np.tile(x, (n, 1)): the whole block of rows n times over
Tile(x, n) == Concat([t \in 1..n |-> x])

\* np.repeat(x, n, axis=0): every row n times in a row
Repeat(x, n) == Concat([e \in DOMAIN x |-> [t \in 1..n |-> x[e]]])

\* a.reshape(len(a), -1) of one sample's (echo, time) block, in C order
Reshape(block) == Concat(block)

\* fit_decay: x = np.column_stack([np.ones(echo), [-te for te in tes[:echo]]]);
\* X = np.repeat(x, n_vols, axis=0).  column_stack needs as many echo times as ones.
DesignFails(tes_, echo_) == Len(Prefix(tes_, echo_)) # echo_

DesignFD(tes_, echo_, nvols) ==
    Repeat([e \in 1..echo_ |-> <<1, -tes_[e]>>], nvols)

\* fit_decay: B = np.log((np.abs(data[:, :echo, :]) + 1).reshape(len(data), -1).T)
ResponseFD(mdata, echo_, nvols) ==
    LET flat == Array([m \in DOMAIN mdata |->
                    Reshape([e \in 1..echo_ |-> [t \in 1..nvols |->
                                LogAbs1(mdata[m][e][t])]])])
        rows == IF mdata = <<>> THEN echo_ * nvols ELSE Len(flat[1])
    IN  Array([p \in 1..rows |-> Array([m \in DOMAIN mdata |-> flat[m][p]])])

\* np.sort(a)[::-1] of a vector: descending
RECURSIVE SortDesc(_)
SortDesc(q) ==
    IF q = <<>> THEN <<>>
    ELSE LET i == CHOOSE i \in DOMAIN q : \A j \in DOMAIN q : q[i] >= q[j]
         IN  <<q[i]>> \o SortDesc(SubSeq(q, 1, i - 1) \o SubSeq(q, i + 1, Len(q)))

\* the design without the reversal: X = np.sort(x).transpose(), ascending
DesignTSAscending(tes_, echo_) ==
    LET sorted == SortDesc([e \in 1..echo_ |-> -tes_[e]])
    IN  Array([e \in 1..echo_ |-> <<1, sorted[echo_ + 1 - e]>>])

\* fit_decay_ts: neg_tes = -1 * tes[:i_echo]; x = np.array([np.ones(i_echo), neg_tes]);
\* X = np.sort(x)[:, ::-1].transpose(): each row of x sorted, then reversed
DesignTS(tes_, echo_) ==
    LET neg_tes == [e \in 1..echo_ |-> -tes_[e]]
        sorted == SortDesc(neg_tes)
    IN  Array([e \in 1..echo_ |-> <<1, sorted[e]>>])

\* fit_decay_ts: B = np.log(np.abs(echodata[:, :i_echo, vol]) + 1).transpose()
ResponseTS(mdata, echo_, vol_) ==
    Array([e \in 1..echo_ |-> Array([m \in DOMAIN mdata |-> LogAbs1(mdata[m][e][vol_])])])

\* data[mask] raises unless the boolean index has the length of the first axis
MaskFails(data_, mask_) == Len(mask_) # Len(data_)

\* data[mask]
Masked(data_, mask_) == BoolIndex(data_, mask_)

\* fit_decay, lines 68-73: beta of the pass that fits the first echo_ echoes
EchoFD(data_, tes_, mask_, echo_) ==
    LET mdata == Masked(data_, mask_)
        nvols == Len(data_[1][1])
    IN  Beta(DesignFD(tes_, echo_, nvols), ResponseFD(mdata, echo_, nvols), Len(mdata))

\* fit_decay_ts, lines 151-160: beta of the pass of timepoint vol_ that fits the
\* first echo_ echoes
EchoTS(data_, tes_, mask_, echo_, vol_) ==
    LET mdata == Masked(data_, mask_)
    IN  Beta(DesignTS(tes_, echo_), ResponseTS(mdata, echo_, vol_), Len(mdata))

\* ------------------------------------------------------------ the lattice
\* np.zeros([n_samp, n_echos - 1])
ZeroLattice(nsamp, nechos) ==
    Array([s \in 1..nsamp |-> Array([c \in 1..(nechos - 1) |-> Zero])])

\* the column that python's index echo - 2 names, counted from 1 (a negative
\* index counts from the end)
LatticeCol(echo_, ncols) ==
    IF echo_ - 2 >= 0 THEN echo_ - 2 + 1 ELSE echo_ - 2 + ncols + 1

\* a column write that forgets utils.unmask: the fitted values go to the first samples
SetColPacked(lat, echo_, vals, mask_) ==
    LET col == LatticeCol(echo_, Len(lat[1]))
    IN  Array([s \in DOMAIN lat |->
            [lat[s] EXCEPT ![col] = IF s <= Len(vals) THEN vals[s] ELSE Zero]])

\* t2ss[..., echo - 2] = np.squeeze(utils.unmask(t2s, mask))
SetCol(lat, echo_, vals, mask_) ==
    LET full == Unmask(vals, mask_)
        col == LatticeCol(echo_, Len(lat[1]))
    IN  Array([s \in DOMAIN lat |-> [lat[s] EXCEPT ![col] = full[s]]])

\* ----------------------------------------------------------- the assembly
\* fl = np.zeros([n_samp, len(tes) - 1], bool); for echo in range(n_echos - 1):
\*     fl_[masksum == echo + 2] = True
Flags(masksum_, nsamp, ncols, nechos) ==
    [s \in 1..nsamp |-> [c \in 1..ncols |-> c <= nechos - 1 /\ masksum_[s] = (c - 1) + 2]]

\* a selection that walks the flags echo by echo (column-major) instead
SelectColumnMajor(lat, fl) ==
    Concat([c \in DOMAIN fl[1] |->
        Concat([s \in DOMAIN lat |-> IF fl[s][c] THEN <<lat[s][c]>> ELSE <<>>])])

\* t2ss[fl]: the flagged entries in row-major order
Select(lat, fl) == Concat([s \in DOMAIN lat |-> BoolIndex(lat[s], fl[s])])

\* masksum > 1, masksum == 1
Above1(masksum_) == [s \in DOMAIN masksum_ |-> masksum_[s] > 1]

\* what makes lines 84-89 (171-177) raise: a flag column past fl's width, a
\* masksum of another length than the maps, flags of another width than the
\* lattice, or values that do not fit the samples with masksum > 1
AssemblyFails(lat, tes_, masksum_, nsamp, nechos) ==
    \/ Len(tes_) - 1 < nechos - 1
    \/ Len(masksum_) # nsamp
    \/ Len(tes_) - 1 # nechos - 1
    \/ UnmaskFails(Select(lat, Flags(masksum_, nsamp, Len(tes_) - 1, nechos)),
                   Above1(masksum_))

\* t2sa = utils.unmask(t2ss[fl], masksum > 1)
Limited(lat, tes_, masksum_, nsamp, nechos) ==
    Unmask(Select(lat, Flags(masksum_, nsamp, Len(tes_) - 1, nechos)), Above1(masksum_))

\* t2saf = t2sa.copy(); t2saf[masksum == 1] = t2ss[masksum == 1, 0]
Full(lim, lat, masksum_) ==
    Array([s \in DOMAIN lim |-> IF masksum_[s] = 1 THEN lat[s][1] ELSE lim[s]])

\* ------------------------------------------------------------- the inputs
\* Signal profiles over (echo, time), by number:
\*   0  decaying: ln(signal + 1) = (E + 1 - e)^2 + t, all values different
\*   1  flat across the echoes (rising with time only): decay rate zero
\*   2  first echo e^700 - 1, then 0: the fitted intercept is past exp's range
\*   3  as 0, with a NaN at (echo 1, time 1) and negative signals at echo 2
Signal(p, e, t, nechos) ==
    CASE p = 0 -> [sgn |-> 1, lg |-> (nechos + 1 - e) * (nechos + 1 - e) + t]
      [] p = 1 -> [sgn |-> 1, lg |-> 5 + t]
      [] p = 2 -> [sgn |-> 1, lg |-> IF e = 1 THEN 700 ELSE 0]
      [] OTHER -> IF e = 1 /\ t = 1 THEN [sgn |-> 0, lg |-> 0]
                  ELSE [sgn |-> IF e = 2 THEN -1 ELSE 1,
                        lg |-> (nechos + 1 - e) * (nechos + 1 - e) + t]

\* data set r: sample s carries profile (s - 1 + 2 r) mod 4
DataSet(r) ==
    [s \in 1..NSamp |-> [e \in 1..NEchos |-> [t \in 1..NVols |->
        Signal((s - 1 + 2 * r) % 4, e, t, NEchos)]]]

DataChoices == {DataSet(0), DataSet(1)}

\* echo times: increasing (1, 2, ..), the first two exchanged, one short, one long
TesOk == [e \in 1..NEchos |-> e]
TesUnsorted == [e \in 1..NEchos |-> IF e = 1 THEN 2 ELSE IF e = 2 THEN 1 ELSE e]
TesShort == [e \in 1..(NEchos - 1) |-> e]
TesLong == [e \in 1..(NEchos + 1) |-> e]

\* masks and echo-count maps one sample longer than the data
MaskLong == [s \in 1..(NSamp + 1) |-> TRUE]
MasksumLong == [s \in 1..(NSamp + 1) |-> 2]

\* echo-count maps into 0..E+1 that take at most two values over the samples
MasksumChoices ==
    {ms \in [1..NSamp -> 0..(NEchos + 1)] : Cardinality({ms[s] : s \in 1..NSamp}) <= 2}

\* (tes, mask, masksum): with increasing echo times of the data's length, every
\* mask and every echo-count map of MasksumChoices; and the odd shapes and orders
\* with a few masks and echo-count maps
ShapedInputs ==
    {<<TesOk, m, ms>> : m \in [1..NSamp -> BOOLEAN], ms \in MasksumChoices}

OddInputs ==
    {<<te, m, ms>> : te \in {TesOk, TesUnsorted, TesShort, TesLong},
                     m \in {[s \in 1..NSamp |-> TRUE], [s \in 1..NSamp |-> s # 1], MaskLong},
                     ms \in {[s \in 1..NSamp |-> 2], [s \in 1..NSamp |-> IF s = 1 THEN 1 ELSE NEchos],
                             MasksumLong}}

StartEchoChoices == 1..NEchos

VARIABLES
    fn,          \* the driver called: "fit_decay" or "fit_decay_ts"
    data, tes, mask, masksum, start_echo,   \* its arguments
    pc,          \* "start", "fit", "volend", "done" (returned), "error" (raised)
    echo,        \* the fitting loop's echo / i_echo
    vol,         \* fit_decay_ts's vol, counted from 1
    X, B,        \* the design and response of the last regression
    beta,        \* its solution: an (intercept, rate) pair per masked sample
    nfits,       \* regressions computed so far (np.linalg.lstsq calls)
    t2ss, s0vs,  \* the lattice
    t2sa, s0va, t2saf, s0vaf,               \* limited and full maps
    t2sa_ts, s0va_ts, t2saf_ts, s0vaf_ts    \* fit_decay_ts's maps over time

args == <<fn, data, tes, mask, masksum, start_echo>>
maps == <<t2sa, s0va, t2saf, s0vaf>>
maps_ts == <<t2sa_ts, s0va_ts, t2saf_ts, s0vaf_ts>>
vars == <<args, pc, echo, vol, X, B, beta, nfits, t2ss, s0vs, maps, maps_ts>>

\* data.shape
n_samp == Len(data)
n_echos == Len(data[1])
n_vols == Len(data[1][1])

ZeroMapTs(nsamp, nvols) == [s \in 1..nsamp |-> [v \in 1..nvols |-> Zero]]

Init ==
    /\ fn \in {"fit_decay", "fit_decay_ts"}
    /\ data \in DataChoices
    /\ \E in \in ShapedInputs \cup OddInputs :
            tes = in[1] /\ mask = in[2] /\ masksum = in[3]
    /\ start_echo \in StartEchoChoices
    /\ pc = "start"
    /\ echo = 0
    /\ vol = 0
    /\ X = <<>>
    /\ B = <<>>
    /\ beta = <<>>
    /\ nfits = 0
    /\ t2ss = <<>>
    /\ s0vs = <<>>
    /\ t2sa = <<>> /\ s0va = <<>> /\ t2saf = <<>> /\ s0vaf = <<>>
    /\ t2sa_ts = <<>> /\ s0va_ts = <<>> /\ t2saf_ts = <<>> /\ s0vaf_ts = <<>>

Raise ==
    /\ pc' = "error"
    /\ UNCHANGED <<args, echo, vol, X, B, beta, nfits, t2ss, s0vs, maps, maps_ts>>

\* ------------------------------------------------------------- fit_decay
\* lines 61-63
FitDecayStart ==
    /\ fn = "fit_decay" /\ pc = "start"
    /\ IF MaskFails(data, mask) THEN Raise
       ELSE /\ t2ss' = ZeroLattice(n_samp, n_echos)
            /\ s0vs' = ZeroLattice(n_samp, n_echos)
            /\ echo' = start_echo
            /\ pc' = "fit"
            /\ UNCHANGED <<args, vol, X, B, beta, nfits, maps, maps_ts>>

\* lines 65-81: one pass of the fitting loop
FitDecayEcho ==
    /\ fn = "fit_decay" /\ pc = "fit" /\ echo <= n_echos
    /\ IF DesignFails(tes, echo) THEN Raise
       ELSE LET X1 == DesignFD(tes, echo, n_vols)
                B1 == ResponseFD(Masked(data, mask), echo, n_vols)
                beta1 == Beta(X1, B1, Len(B1[1]))
            IN  /\ X' = X1
                /\ B' = B1
                /\ beta' = beta1
                /\ nfits' = nfits + 1
                /\ t2ss' = SetCol(t2ss, echo, T2sOf(beta1), mask)
                /\ s0vs' = SetCol(s0vs, echo, S0Of(beta1), mask)
                /\ echo' = echo + 1
                /\ UNCHANGED <<args, pc, vol, maps, maps_ts>>

\* lines 83-97: the limited and the full maps, and the return
FitDecayAssemble ==
    /\ fn = "fit_decay" /\ pc = "fit" /\ echo > n_echos
    /\ IF AssemblyFails(t2ss, tes, masksum, n_samp, n_echos) THEN Raise
       ELSE /\ t2sa' = Limited(t2ss, tes, masksum, n_samp, n_echos)
            /\ s0va' = Limited(s0vs, tes, masksum, n_samp, n_echos)
            /\ t2saf' = Full(Limited(t2ss, tes, masksum, n_samp, n_echos), t2ss, masksum)
            /\ s0vaf' = Full(Limited(s0vs, tes, masksum, n_samp, n_echos), s0vs, masksum)
            /\ pc' = "done"
            /\ UNCHANGED <<args, echo, vol, X, B, beta, nfits, t2ss, s0vs, maps_ts>>

\* ---------------------------------------------------------- fit_decay_ts
\* lines 136-147: the set-up, and the first timepoint's empty lattice
FitDecayTsStart ==
    /\ fn = "fit_decay_ts" /\ pc = "start"
    /\ IF MaskFails(data, mask) THEN Raise
       ELSE /\ t2sa_ts' = ZeroMapTs(n_samp, n_vols)
            /\ s0va_ts' = ZeroMapTs(n_samp, n_vols)
            /\ t2saf_ts' = ZeroMapTs(n_samp, n_vols)
            /\ s0vaf_ts' = ZeroMapTs(n_samp, n_vols)
            /\ vol' = 1
            /\ t2ss' = ZeroLattice(n_samp, n_echos)
            /\ s0vs' = ZeroLattice(n_samp, n_echos)
            /\ echo' = start_echo
            /\ pc' = "fit"
            /\ UNCHANGED <<args, X, B, beta, nfits, maps>>

\* lines 150-168: one pass of the fitting loop of timepoint vol
FitDecayTsEcho ==
    /\ fn = "fit_decay_ts" /\ pc = "fit" /\ echo <= n_echos
    /\ IF DesignFails(tes, echo) THEN Raise
       ELSE LET X1 == DesignTS(tes, echo)
                B1 == ResponseTS(Masked(data, mask), echo, vol)
                beta1 == Beta(X1, B1, Len(B1[1]))
            IN  /\ X' = X1
                /\ B' = B1
                /\ beta' = beta1
                /\ nfits' = nfits + 1
                /\ t2ss' = SetCol(t2ss, echo, T2sOf(beta1), mask)
                /\ s0vs' = SetCol(s0vs, echo, S0Of(beta1), mask)
                /\ echo' = echo + 1
                /\ UNCHANGED <<args, pc, vol, maps, maps_ts>>

\* t2sa_ts[:, :, :, vol] = t2sa
SetVol(map_ts, vol_, map) ==
    Array([s \in DOMAIN map_ts |-> [map_ts[s] EXCEPT ![vol_] = map[s]]])

\* lines 170-188: the maps of timepoint vol
FitDecayTsAssemble ==
    /\ fn = "fit_decay_ts" /\ pc = "fit" /\ echo > n_echos
    /\ IF AssemblyFails(t2ss, tes, masksum, n_samp, n_echos) THEN Raise
       ELSE LET lim_t2 == Limited(t2ss, tes, masksum, n_samp, n_echos)
                lim_s0 == Limited(s0vs, tes, masksum, n_samp, n_echos)
            IN  /\ t2sa' = lim_t2
                /\ s0va' = lim_s0
                /\ t2saf' = Full(lim_t2, t2ss, masksum)
                /\ s0vaf' = Full(lim_s0, s0vs, masksum)
                /\ t2sa_ts' = SetVol(t2sa_ts, vol, lim_t2)
                /\ s0va_ts' = SetVol(s0va_ts, vol, lim_s0)
                /\ t2saf_ts' = SetVol(t2saf_ts, vol, Full(lim_t2, t2ss, masksum))
                /\ s0vaf_ts' = SetVol(s0vaf_ts, vol, Full(lim_s0, s0vs, masksum))
                /\ pc' = "volend"
                /\ UNCHANGED <<args, echo, vol, X, B, beta, nfits, t2ss, s0vs>>

\* lines 145-147 and 190: the next timepoint with an empty lattice, or the return
FitDecayTsNextVol ==
    /\ fn = "fit_decay_ts" /\ pc = "volend"
    /\ IF vol < n_vols
       THEN /\ vol' = vol + 1
            /\ t2ss' = ZeroLattice(n_samp, n_echos)
            /\ s0vs' = ZeroLattice(n_samp, n_echos)
            /\ echo' = start_echo
            /\ pc' = "fit"
            /\ UNCHANGED <<args, X, B, beta, nfits, maps, maps_ts>>
       ELSE /\ pc' = "done"
            /\ UNCHANGED <<args, echo, vol, X, B, beta, nfits, t2ss, s0vs, maps, maps_ts>>

Next ==
    \/ FitDecayStart
    \/ FitDecayEcho
    \/ FitDecayAssemble
    \/ FitDecayTsStart
    \/ FitDecayTsEcho
    \/ FitDecayTsAssemble
    \/ FitDecayTsNextVol

Spec == Init /\ [][Next]_vars

\* ------------------------------------------------ fit_decay as a function
\* lines 65-81 run from pass echo_ to the last, on the lattice pair lats
RECURSIVE LoopFD(_, _, _, _, _)
LoopFD(data_, tes_, mask_, echo_, lats) ==
    IF echo_ > Len(data_[1]) THEN lats
    ELSE LET b == EchoFD(data_, tes_, mask_, echo_)
         IN  LoopFD(data_, tes_, mask_, echo_ + 1,
                    <<SetCol(lats[1], echo_, T2sOf(b), mask_),
                      SetCol(lats[2], echo_, S0Of(b), mask_)>>)

Raised == [st |-> "error", t2sa |-> <<>>, s0va |-> <<>>, t2saf |-> <<>>, s0vaf |-> <<>>]

\* fit_decay(data_, tes_, mask_, masksum_, start_): what it returns, or that it raises
FitDecay(data_, tes_, mask_, masksum_, start_) ==
    LET nsamp == Len(data_)
        nechos == Len(data_[1])
    IN  IF MaskFails(data_, mask_) \/ \E k \in start_..nechos : DesignFails(tes_, k)
        THEN Raised
        ELSE LET lats == LoopFD(data_, tes_, mask_, start_,
                                <<ZeroLattice(nsamp, nechos), ZeroLattice(nsamp, nechos)>>)
             IN  IF AssemblyFails(lats[1], tes_, masksum_, nsamp, nechos) THEN Raised
                 ELSE LET t2sa_ == Limited(lats[1], tes_, masksum_, nsamp, nechos)
                          s0va_ == Limited(lats[2], tes_, masksum_, nsamp, nechos)
                      IN  [st |-> "done",
                           t2sa |-> t2sa_,
                           s0va |-> s0va_,
                           t2saf |-> Full(t2sa_, lats[1], masksum_),
                           s0vaf |-> Full(s0va_, lats[2], masksum_)]

\* the function and the stepwise run of fit_decay agree
FitDecayMatchesRun ==
    fn = "fit_decay" =>
        /\ pc = "done" =>
             FitDecay(data, tes, mask, masksum, start_echo) =
                 [st |-> "done", t2sa |-> t2sa, s0va |-> s0va, t2saf |-> t2saf, s0vaf |-> s0vaf]
        /\ pc = "error" => FitDecay(data, tes, mask, masksum, start_echo) = Raised

\* --------------------------------------------------------- shared notions
\* the maps of the current lattice have been assembled
Assembled == pc \in {"done", "volend"}

\* a pass of the current fitting loop has just run: it fitted the first echo - 1 echoes
JustFitted == pc = "fit" /\ echo > start_echo

\* the position of sample s among the masked samples
Rank(s) == Cardinality({j \in 1..s : mask[j]})

\* the lengths of mask, masksum and tes fit the data
DimsOk == Len(mask) = n_samp /\ Len(masksum) = n_samp /\ Len(tes) = n_echos

Increasing(q) == \A i \in 1..(Len(q) - 1) : q[i] < q[i + 1]

\* beta of the fit of the first k echoes, by the driver running (at timepoint vol)
BetaOf(k) ==
    IF fn = "fit_decay" THEN EchoFD(data, tes, mask, k) ELSE EchoTS(data, tes, mask, k, vol)

\* the (intercept, rate) pair of masked sample s in the fit of the first k echoes
FitOf(s, k) ==
    LET mdata == Masked(data, mask)
    IN  IF fn = "fit_decay"
        THEN LstSq(DesignFD(tes, k, n_vols), Column(ResponseFD(mdata, k, n_vols), Rank(s)))
        ELSE LstSq(DesignTS(tes, k), Column(ResponseTS(mdata, k, vol), Rank(s)))

\* the maps over all samples of the fit of the first k echoes
FitT2sOf(k) == Unmask(T2sOf(BetaOf(k)), mask)
FitS0Of(k) == Unmask(S0Of(BetaOf(k)), mask)

\* the exponential of intercept a is past the float range
Overflows(a) == a.k = "fin" /\ a.n >= ExpOverflowArg * a.d

\* ------------------------------------------------------------------ C1
\* C1: in both drivers, at every sample s whose masksum is k with 2 <= k <= E, the
\* limited T2* and S0 are the lattice values of that same sample s in the column of
\* echo count k (zero-based k - 2): selecting and unmasking moves no fit to
\* another sample.
C1_LimitedIsOwnLatticeFit ==
    Assembled =>
        \A s \in 1..n_samp :
            masksum[s] \in 2..n_echos =>
                /\ t2sa[s] = t2ss[s][masksum[s] - 1]
                /\ s0va[s] = s0vs[s][masksum[s] - 1]
                /\ fn = "fit_decay_ts" =>
                        /\ t2sa_ts[s][vol] = t2ss[s][masksum[s] - 1]
                        /\ s0va_ts[s][vol] = s0vs[s][masksum[s] - 1]

\* two masked samples with different fits, the earlier one taking the later lattice
\* column
C1_Witness ==
    /\ Assembled
    /\ \E s1, s2 \in 1..n_samp :
        /\ s1 # s2 /\ mask[s1] /\ mask[s2]
        /\ masksum[s1] \in 2..n_echos /\ masksum[s2] \in 2..n_echos
        /\ masksum[s1] > masksum[s2] /\ s1 < s2
        /\ t2sa[s1] # t2sa[s2] /\ t2sa[s1] # Zero /\ t2sa[s2] # Zero
        /\ t2ss[s1] # t2ss[s2]

\* ------------------------------------------------------------------ C4
\* C4: a sample whose mask is false is 0 in every returned map (the lattice, the
\* limited and the full maps, at every timepoint assembled so far), whatever its
\* masksum in 0..E and whatever its signal.
C4_UnmaskedIsBackground ==
    Assembled =>
        \A s \in 1..n_samp :
            (~mask[s] /\ masksum[s] \in 0..n_echos) =>
                /\ \A c \in 1..(n_echos - 1) : t2ss[s][c] = Zero /\ s0vs[s][c] = Zero
                /\ t2sa[s] = Zero /\ s0va[s] = Zero
                /\ t2saf[s] = Zero /\ s0vaf[s] = Zero
                /\ fn = "fit_decay_ts" =>
                        \A v \in 1..vol :
                            /\ t2sa_ts[s][v] = Zero /\ s0va_ts[s][v] = Zero
                            /\ t2saf_ts[s][v] = Zero /\ s0vaf_ts[s][v] = Zero

\* an unmasked sample with an echo count that selects a lattice column, beside a
\* masked sample whose maps are filled
C4_Witness ==
    /\ pc = "done"
    /\ \E s, s2 \in 1..n_samp :
        /\ ~mask[s] /\ masksum[s] \in 1..n_echos
        /\ mask[s2] /\ t2sa[s2] # Zero /\ s0va[s2] # Zero

\* ------------------------------------------------------------------ C2
\* C2 (as claimed): at every sample with masksum 1 the full maps hold the fit
\* computed with echo count start_echo, for every start_echo from 1 on.
C2_FullIsStartEchoFit ==
    Assembled =>
        \A s \in 1..n_samp :
            masksum[s] = 1 =>
                /\ t2saf[s] = FitT2sOf(start_echo)[s]
                /\ s0vaf[s] = FitS0Of(start_echo)[s]

\* ------------------------------------------------------------------ C3
\* C3 (as claimed): when the fitting loop has finished, every candidate echo count k
\* in start_echo..E has a lattice column that holds, at every masked sample, the fit
\* of exactly the first k echoes: no candidate's result is lost to another's.
C3_EveryCandidateKeepsItsFit ==
    (pc = "fit" /\ echo > n_echos) =>
        \A k \in start_echo..n_echos :
            \E c \in 1..(n_echos - 1) :
                \A s \in 1..n_samp :
                    mask[s] => /\ t2ss[s][c] = FitT2sOf(k)[s]
                               /\ s0vs[s][c] = FitS0Of(k)[s]

\* ------------------------------------------------------------------ C5
\* C5 (as claimed): with inputs of fitting lengths, a masksum outside 1..E (0, or
\* more than E) raises no error, and that sample is 0 in the limited and full maps.
C5_OutOfRangeMasksumIsBackground ==
    (DimsOk /\ \E s \in 1..n_samp : masksum[s] \notin 1..n_echos) =>
        /\ pc # "error"
        /\ Assembled =>
             \A s \in 1..n_samp :
                masksum[s] \notin 1..n_echos =>
                    /\ t2sa[s] = Zero /\ s0va[s] = Zero
                    /\ t2saf[s] = Zero /\ s0vaf[s] = Zero

\* ------------------------------------------------------------------ C6
\* the timepoint-v slice of the data, as a data array of one timepoint
Slice(data_, v) ==
    Array([s \in DOMAIN data_ |-> Array([e \in DOMAIN data_[s] |-> <<data_[s][e][v]>>])])

NoInf(map) == \A s \in DOMAIN map : ~IsInf(map[s])
NoInf2(arr) == \A s \in DOMAIN arr : NoInf(arr[s])

\* C8: a masked sample whose fitted decay rate is zero gets T2* == 500 in the
\* lattice column of the pass that fitted it, in both drivers, and no T2* of the
\* lattice or of a limited or full map is ever infinite.
C8_ZeroRateGives500 ==
    /\ JustFitted =>
         \A s \in 1..n_samp :
            (mask[s] /\ beta[Rank(s)][2] = Zero) =>
                t2ss[s][LatticeCol(echo - 1, n_echos - 1)] = Fin(T2sInfFill, 1)
    /\ NoInf2(t2ss) /\ NoInf(t2sa) /\ NoInf(t2saf) /\ NoInf2(t2sa_ts) /\ NoInf2(t2saf_ts)

\* a pass over two echoes or more has just fitted a masked sample with rate zero
C8_Witness ==
    /\ JustFitted /\ echo - 1 >= 2
    /\ \E s \in 1..n_samp :
        /\ mask[s] /\ beta[Rank(s)][2] = Zero
        /\ t2ss[s][LatticeCol(echo - 1, n_echos - 1)] = Fin(T2sInfFill, 1)

\* ------------------------------------------------------------------ C9
\* C9 (as claimed): with a mask, masksum or echo-time list whose length does not
\* fit the data, fit_decay computes no regression and returns no maps.
C9_ShapeMismatchFailsBeforeAnyFit ==
    (fn = "fit_decay" /\ ~DimsOk) => (nfits = 0 /\ pc # "done")

\* ----------------------------------------------------------------- C10
\* C10: in fit_decay's regression over the first k echoes and T timepoints, X has
\* k*T rows, and for every echo e <= k and timepoint t <= T the response
\* ln(|data[s, e, t]| + 1) of every masked sample s stands in the row of B whose
\* row of X is (1, -tes[e]) (C order: row (e - 1) T + t, counted from 1).
C10_DesignRowsMatchResponses ==
    (fn = "fit_decay" /\ JustFitted) =>
        LET k == echo - 1
        IN  /\ Len(X) = k * n_vols
            /\ Len(B) = k * n_vols
            /\ \A e \in 1..k, t \in 1..n_vols :
                /\ X[(e - 1) * n_vols + t] = <<1, -tes[e]>>
                /\ \A s \in 1..n_samp :
                    mask[s] => B[(e - 1) * n_vols + t][Rank(s)] = LogAbs1(data[s][e][t])

\* a pooled pass over several echoes and timepoints with a masked sample
C10_Witness ==
    /\ fn = "fit_decay" /\ JustFitted /\ echo - 1 >= 2 /\ n_vols >= 2
    /\ \E s \in 1..n_samp : mask[s]
    /\ \E p, q \in DOMAIN X : p # q /\ X[p] # X[q] /\ B[p] # B[q]

=============================================================================
